---- MODULE Spec2Model ----
(***************************************************************************)
(* A model of scripts/dockerhub-cleanup.py: main's repository loop,        *)
(* DockerHubCleaner.cleanup_repository's tag loop, the tag classification  *)
(* (is_protected_tag, should_delete_tag) and delete_tag.                   *)
(*                                                                         *)
(* Tag names are sequences of one-character strings, so that the regular   *)
(* expressions of the source are evaluated character by character.  Time   *)
(* is an integer number of ticks, DayTicks of them to the day.             *)
(***************************************************************************)
EXTENDS Integers, Sequences, FiniteSets, TLC

\* ------------------------------------------------------------------ bounds

\* Ticks per day: the resolution of the model's clock.
DayTicks == 2
\* Longest tag list a listing returns when the pool is "all".
MaxTags == 2
\* Longest tag list a listing returns when the pool is "few".
MaxFewTags == 1
\* Most repositories given on the command line.
MaxRepos == 2
\* The clock stops advancing after this many ticks.
MaxClock == 1

\* ------------------------------------------------------- program constants

\* --pr-retention default (days).
DefaultPrRetention == 30
\* --sha-retention default (days).
DefaultShaRetention == 14
\* Age, in days, assumed for a tag that carries no last_updated value.
AssumedAgeDays == 365
\* Fewest hex characters of a commit-SHA tag: [a-f0-9]{7,}.
MinShaLen == 7
\* self.max_retries
max_retries == 3
\* self.retry_delay, in seconds
retry_delay == 1

\* ------------------------------------------------------------- characters

Digits == {"0", "1", "2", "3", "4", "5", "6", "7", "8", "9"}
HexChars == Digits \cup {"a", "b", "c", "d", "e", "f"}
\* A line feed: "$" of Python's re also matches just before a final one.
NL == "\n"

\* s[from..Len(s)], the rest of s from position from on.
Rest(s, from) == SubSeq(s, from, Len(s))

\* s begins with the literal p.
StartsWith(s, p) == Len(s) >= Len(p) /\ SubSeq(s, 1, Len(p)) = p

\* Every character of s is in set cs (true of the empty sequence).
AllIn(s, cs) == \A k \in 1..Len(s) : s[k] \in cs

\* \d+ : one or more digits, the whole of s.
IsDigits(s) == Len(s) >= 1 /\ AllIn(s, Digits)

\* The positions of "." in s.
DotPositions(s) == {k \in 1..Len(s) : s[k] = "."}

\* \d+(\.\d+){n-1} : exactly n groups of digits separated by dots, the whole of s.
IsDigitGroups(s, n) ==
    /\ Cardinality(DotPositions(s)) = n - 1
    /\ AllIn(s, Digits \cup {"."})
    /\ Len(s) >= 1 /\ s[1] # "." /\ s[Len(s)] # "."
    /\ \A k \in 1..(Len(s) - 1) : ~(s[k] = "." /\ s[k + 1] = ".")

\* What a pattern ending in $ may match of s under Python's re.match: all of
\* s, or all of s but a final line feed.
MatchToEnd(s) ==
    {s} \cup (IF Len(s) >= 1 /\ s[Len(s)] = NL
                THEN {SubSeq(s, 1, Len(s) - 1)} ELSE {})

\* ------------------------------------------------------------- tag names

Chars_latest == <<"l", "a", "t", "e", "s", "t">>
Chars_main == <<"m", "a", "i", "n">>
Chars_master == <<"m", "a", "s", "t", "e", "r">>
Chars_develop == <<"d", "e", "v", "e", "l", "o", "p">>
Chars_pr == <<"p", "r", "-">>
Chars_nightly == <<"n", "i", "g", "h", "t", "l", "y", "-">>

\* A falsy name: tag.get("name") gave None or "".
NoName == <<>>

BranchNames == {Chars_main, Chars_master, Chars_develop}

Name_latest == Chars_latest
Name_latest_nl == Chars_latest \o <<NL>>                          \* latest, then a line feed
Name_v1_2_3 == <<"v", "1", ".", "2", ".", "3">>                   \* v1.2.3
Name_v1_2 == <<"v", "1", ".", "2">>                               \* v1.2
Name_pr_42 == Chars_pr \o <<"4", "2">>                            \* pr-42
Name_pr_7 == Chars_pr \o <<"7">>                                  \* pr-7
Name_main_sha7 == Chars_main \o <<"-", "a", "b", "c", "d", "e", "f", "1">>   \* main-abcdef1
Name_main_sha6 == Chars_main \o <<"-", "a", "b", "c", "d", "e", "f">>        \* main-abcdef
Name_nightly_7 == Chars_nightly \o <<"7">>                        \* nightly-7
Name_mystery == <<"m", "y", "s", "t", "e", "r", "y">>             \* mystery

\* The tag names the listings of the model return.
TagNames ==
    { Name_latest, Name_latest_nl, Name_v1_2_3, Name_v1_2,
      Name_pr_42, Name_pr_7, Name_main_sha7, Name_main_sha6, Name_nightly_7,
      Name_mystery }

\* ------------------------------------------------- the regular expressions

\* The alternatives of protected_pattern between ^( and )$.
ProtectedBody(s) ==
    \/ s \in {Chars_latest, Chars_main, Chars_master, Chars_develop}
    \/ IsDigitGroups(s, 3)
    \/ Len(s) >= 1 /\ s[1] = "v" /\ IsDigitGroups(Rest(s, 2), 3)
    \/ IsDigitGroups(s, 2)
    \/ IsDigits(s)

\* protected_pattern.match(tag_name)
MatchesProtectedPattern(s) == \E t \in MatchToEnd(s) : ProtectedBody(t)

\* pr-\d+ between ^ and $.
PrBody(s) == StartsWith(s, Chars_pr) /\ IsDigits(Rest(s, Len(Chars_pr) + 1))

\* pr_pattern.match(tag_name)
MatchesPrPattern(s) == \E t \in MatchToEnd(s) : PrBody(t)

\* (main|master|develop)-[a-f0-9]{7,} between ^ and $.
ShaBody(s) ==
    \E b \in BranchNames :
        /\ StartsWith(s, b \o <<"-">>)
        /\ Len(s) - (Len(b) + 1) >= MinShaLen
        /\ AllIn(Rest(s, Len(b) + 2), HexChars)

\* sha_pattern.match(tag_name)
MatchesShaPattern(s) == \E t \in MatchToEnd(s) : ShaBody(t)

\* A custom pattern string is modelled by what compiling and matching it does:
\*   valid  - re.compile accepts it (FALSE: re.compile raises re.error);
\*   prefix - the literal the name must begin with (re.match anchors at the start);
\*   tail   - "any": nothing is required after the prefix,
\*            "digits": \d+$ is required after the prefix.
Pattern(valid, prefix, tail) == [valid |-> valid, prefix |-> prefix, tail |-> tail]

Pat_nightly == Pattern(TRUE, Chars_nightly, "digits")    \* ^nightly-\d+$
Pat_pr_prefix == Pattern(TRUE, Chars_pr, "any")           \* ^pr-
Pat_pr_digits == Pattern(TRUE, Chars_pr, "digits")        \* ^pr-\d+$
Pat_main_prefix == Pattern(TRUE, Chars_main, "any")       \* main
Pat_invalid == Pattern(FALSE, <<>>, "any")                \* ( : not a regular expression

\* re.compile(pattern_str).match(tag_name), for a pattern re.compile accepts.
CustomMatches(p, s) ==
    /\ StartsWith(s, p.prefix)
    /\ \/ p.tail = "any"
       \/ /\ p.tail = "digits"
          /\ \E t \in MatchToEnd(Rest(s, Len(p.prefix) + 1)) : IsDigits(t)

\* ------------------------------------------------------------------- time

\* timedelta(days=d), in ticks.
Timedelta(d) == d * DayTicks

\* --------------------------------------------------------- classification

\* is_protected_tag without the check of the protected-tag list.
is_protected_tag_pattern_only(tag_name, protected) ==
    MatchesProtectedPattern(tag_name)

\* DockerHubCleaner.is_protected_tag
is_protected_tag(tag_name, protected) ==
    \/ MatchesProtectedPattern(tag_name)
    \/ tag_name \in protected

\* FirstCustomStop with the last such pattern in place of the first.
LastCustomStop(patterns, tag_name) ==
    LET stops == {k \in 1..Len(patterns) :
                     \/ ~patterns[k].pattern.valid
                     \/ CustomMatches(patterns[k].pattern, tag_name)}
    IN  IF stops = {} THEN 0
        ELSE CHOOSE k \in stops : \A j \in stops : k >= j

\* The position of the first custom pattern at which the loop of
\* should_delete_tag stops on tag_name: the first that re.compile rejects or
\* that matches; 0 when the loop runs to its end.
FirstCustomStop(patterns, tag_name) ==
    LET stops == {k \in 1..Len(patterns) :
                     \/ ~patterns[k].pattern.valid
                     \/ CustomMatches(patterns[k].pattern, tag_name)}
    IN  IF stops = {} THEN 0
        ELSE CHOOSE k \in stops : \A j \in stops : k <= j

\* should_delete_tag with an age test for the names of no known family.
should_delete_tag_unknown_by_age(tag_name, last_updated, pr_cutoff, sha_cutoff, patterns, eval_now) ==
    LET k == FirstCustomStop(patterns, tag_name)
    IN  IF k # 0 /\ ~patterns[k].pattern.valid
          THEN [raised |-> TRUE, delete |-> FALSE, reason |-> "error"]
        ELSE IF k # 0
          THEN [raised |-> FALSE,
                delete |-> last_updated < eval_now - Timedelta(patterns[k].days),
                reason |-> "custom"]
        ELSE IF MatchesPrPattern(tag_name)
          THEN [raised |-> FALSE, delete |-> last_updated < pr_cutoff, reason |-> "pr"]
        ELSE IF MatchesShaPattern(tag_name)
          THEN [raised |-> FALSE, delete |-> last_updated < sha_cutoff, reason |-> "sha"]
        ELSE [raised |-> FALSE, delete |-> last_updated < pr_cutoff, reason |-> "unknown"]

\* should_delete_tag with <= in place of < in the PR and SHA age tests.
should_delete_tag_inclusive(tag_name, last_updated, pr_cutoff, sha_cutoff, patterns, eval_now) ==
    LET k == FirstCustomStop(patterns, tag_name)
    IN  IF k # 0 /\ ~patterns[k].pattern.valid
          THEN [raised |-> TRUE, delete |-> FALSE, reason |-> "error"]
        ELSE IF k # 0
          THEN [raised |-> FALSE,
                delete |-> last_updated < eval_now - Timedelta(patterns[k].days),
                reason |-> "custom"]
        ELSE IF MatchesPrPattern(tag_name)
          THEN [raised |-> FALSE, delete |-> last_updated <= pr_cutoff, reason |-> "pr"]
        ELSE IF MatchesShaPattern(tag_name)
          THEN [raised |-> FALSE, delete |-> last_updated <= sha_cutoff, reason |-> "sha"]
        ELSE [raised |-> FALSE, delete |-> FALSE, reason |-> "unknown"]

\* DockerHubCleaner.should_delete_tag.  patterns is custom_patterns in its
\* iteration order, a sequence of [pattern, days]; eval_now is the
\* datetime.now() read when a custom pattern matches.  The result is
\* [raised, delete, reason]: raised when re.compile raised re.error.
should_delete_tag(tag_name, last_updated, pr_cutoff, sha_cutoff, patterns, eval_now) ==
    LET k == FirstCustomStop(patterns, tag_name)
    IN  IF k # 0 /\ ~patterns[k].pattern.valid
          THEN [raised |-> TRUE, delete |-> FALSE, reason |-> "error"]
        ELSE IF k # 0
          THEN [raised |-> FALSE,
                delete |-> last_updated < eval_now - Timedelta(patterns[k].days),
                reason |-> "custom"]
        ELSE IF MatchesPrPattern(tag_name)
          THEN [raised |-> FALSE, delete |-> last_updated < pr_cutoff, reason |-> "pr"]
        ELSE IF MatchesShaPattern(tag_name)
          THEN [raised |-> FALSE, delete |-> last_updated < sha_cutoff, reason |-> "sha"]
        ELSE [raised |-> FALSE, delete |-> FALSE, reason |-> "unknown"]

\* delete_tag without its dry-run branch.
delete_tag_ignoring_dry_run(dry_run, registry, hub) ==
    IF registry = "ok" THEN TRUE
    ELSE hub = "ok"

\* DockerHubCleaner.delete_tag.  registry is the outcome of the Registry path
\* (token, manifest digest, delete by digest), hub the outcome of the Hub
\* API delete that is tried when the Registry path raised; each is "ok",
\* "notfound" (HTTP 404), "timeout" or "error" (any other failure).  Every exception of
\* the Registry path is caught, and every RequestException of the Hub path,
\* so the retry wrapper sees one attempt that returns.
delete_tag(dry_run, registry, hub) ==
    IF dry_run THEN TRUE
    ELSE IF registry = "ok" THEN TRUE
    ELSE hub = "ok"

\* ------------------------------------------------------- retry_with_backoff

\* What one attempt of a wrapped function may end in: it returns ("ok"), or
\* raises requests' Timeout ("timeout"), HTTPError with status 429 and a
\* Retry-After header that is absent or a number ("rate_limited"), HTTPError
\* with status 429 and a Retry-After header that int() rejects, such as an
\* HTTP date ("rate_limited_date"), HTTPError with status 401
\* ("unauthorized"), HTTPError with another status ("http_error"), another
\* RequestException ("connection"), or an exception that is no
\* RequestException ("error").
RequestOutcomes ==
    {"ok", "timeout", "rate_limited", "rate_limited_date", "unauthorized",
     "http_error", "connection"}

AttemptOutcomes == RequestOutcomes \cup {"error"}

\* The result of a wrapped call: it returned or raised, the exception, the
\* number of times the wrapped function was invoked, and the delay reached.
Returned(attempt, delay) ==
    [raised |-> FALSE, exception |-> "none", attempts |-> attempt, delay |-> delay]

Raised(exception, attempt, delay) ==
    [raised |-> TRUE, exception |-> exception, attempts |-> attempt, delay |-> delay]

\* The for loop of the wrapper from attempt (counted from 1) on; outcomes[k]
\* is what the k-th invocation of the wrapped function ends in.
RECURSIVE RetryLoop(_, _, _, _)
RetryLoop(outcomes, attempt, delay, last_exception) ==
    IF attempt > max_retries
      THEN Raised(IF last_exception # "none" THEN last_exception ELSE "Exception",
                  max_retries, delay)
    ELSE LET o == outcomes[attempt]
             backoff == IF attempt < max_retries THEN delay * 2 ELSE delay
         IN  CASE o = "ok" -> Returned(attempt, delay)
               [] o = "rate_limited" ->
                    RetryLoop(outcomes, attempt + 1, delay, last_exception)
               [] o = "rate_limited_date" -> Raised("ValueError", attempt, delay)
               [] o = "unauthorized" -> Raised("unauthorized", attempt, delay)
               [] o \in {"timeout", "http_error", "connection"} ->
                    RetryLoop(outcomes, attempt + 1, backoff, o)
               [] OTHER -> Raised("error", attempt, delay)

\* wrapper of retry_with_backoff around a function whose successive
\* invocations end in outcomes.
retry_with_backoff(outcomes) == RetryLoop(outcomes, 1, retry_delay, "none")

\* Invocations that all end in o.
Always(o) == [k \in 1..max_retries |-> o]

\* What an invocation of a function ends in when a wrapped call it makes
\* outside any try block gave result: the call's exception passes through.
Propagated(result) ==
    IF ~result.raised THEN "ok"
    ELSE IF result.exception \in {"timeout", "http_error", "connection", "unauthorized"}
      THEN result.exception
    ELSE "error"

\* ------------------------------------------------------------------ inputs

\* A tag's last_updated field: absent (missing, None or ""), malformed (a
\* value strptime rejects) or iso (a value strptime parses to instant t).
LastUpdated(kind, t) == [kind |-> kind, t |-> t]

\* The instants a listed last_updated parses to: one tick before, at and one
\* tick after the default PR cutoff of a run that starts at 0, and the
\* start of the run.
Instants ==
    { -Timedelta(DefaultPrRetention) - 1, -Timedelta(DefaultPrRetention),
      -Timedelta(DefaultPrRetention) + 1, 0 }

Tag(name, last_updated) == [name |-> name, last_updated |-> last_updated]

\* Every tag record a Hub listing of the model can hold.
AllTags ==
    { Tag(n, lu) :
        n \in TagNames,
        lu \in {LastUpdated("absent", 0), LastUpdated("malformed", 0)}
                \cup {LastUpdated("iso", t) : t \in Instants} }
    \cup { Tag(NoName, LastUpdated("absent", 0)), Tag(NoName, LastUpdated("iso", 0)) }

\* A short list of tag records: a protected one, a PR tag without a date
\* and one with a recent date.
FewTags ==
    { Tag(Name_latest, LastUpdated("absent", 0)),
      Tag(Name_pr_42, LastUpdated("absent", 0)),
      Tag(Name_pr_42, LastUpdated("iso", 0)) }

\* Repository specifications, as repo_spec.split('/') : repository,
\* namespace/repository, and one with too many parts.
RepoSpecs == { <<"web">>, <<"acme", "api">>, <<"a", "b", "c">> }

\* custom_patterns in iteration order, each entry [pattern, days].
Entry(p, d) == [pattern |-> p, days |-> d]

\* The policies of the runs with one repository: dry_run, protected_tags,
\* custom_patterns, pr_retention_days, sha_retention_days.
Policy(dry_run, protected, patterns, pr, sha) ==
    [dry_run |-> dry_run, protected_tags |-> protected,
     custom_patterns |-> patterns, pr_retention |-> pr, sha_retention |-> sha]

Policies ==
    { Policy(TRUE, {}, <<>>, DefaultPrRetention, DefaultShaRetention),
      Policy(FALSE, {Name_pr_7}, <<Entry(Pat_nightly, 400)>>,
             DefaultPrRetention, DefaultShaRetention),
      Policy(FALSE, {Name_pr_7},
             <<Entry(Pat_pr_prefix, 7), Entry(Pat_pr_digits, 60),
               Entry(Pat_main_prefix, 60)>>,
             DefaultPrRetention, DefaultShaRetention),
      Policy(FALSE, {Name_pr_7},
             <<Entry(Pat_nightly, 7), Entry(Pat_invalid, 1)>>,
             DefaultPrRetention, DefaultShaRetention) }

\* Sequences over S of length lo to hi.
SeqsOf(S, lo, hi) == UNION { [1..n -> S] : n \in lo..hi }

\* ------------------------------------------------------------------- state

VARIABLES
    pc,            \* where main is: "config", "auth", "loop", "tags", "exit";
                   \* "tokens" where only get_bearer_token is exercised
    exit_code,     \* the status given to sys.exit; -1 while running
    clock,         \* the wall clock, in ticks
    pool,          \* which tag records the Hub may list: "all" or "few"
    args,          \* what main gets from the command line and the environment
    r,             \* position of the for loop of main in args.repositories
    results,       \* main's results
    failed_repos,  \* main's failed_repos
    stats,         \* cleaner.stats
    invoked,       \* history: the repo_spec of each cleanup_repository call
    frame,         \* the locals of the running cleanup_repository
    last,          \* history: what the tag loop did with the latest tag
    listing,       \* history: what get_tags did for the latest repository
    auth,          \* history: what the request of test_authentication gave
    summary,       \* the overall statistics main computes after its loop
    tokens,        \* cleaner.tokens: cache key -> the token and when it was cached
    seconds,       \* the wall clock of the token cache, in seconds
    token_call,    \* history: the latest call of get_bearer_token
    stored         \* history: per namespace and repository, the latest token cached

\* The token cache and its history.
cache_vars == <<tokens, seconds, token_call, stored>>

vars == <<pc, exit_code, clock, pool, args, r, results, failed_repos, stats,
          invoked, frame, last, listing, auth, summary, cache_vars>>

\* The locals of cleanup_repository before it is called and after it returns.
NoFrame ==
    [repository |-> <<>>, total_tags |-> 0, source |-> "none", listed_at |-> 0,
     i |-> 0, now |-> 0, pr_cutoff |-> 0, sha_cutoff |-> 0,
     deleted_count |-> 0, protected_count |-> 0, kept_count |-> 0,
     failed_count |-> 0, identified_count |-> 0, delete_calls |-> 0]

\* No tag handled yet in this repository.
NoLast ==
    [tag |-> Tag(NoName, LastUpdated("absent", 0)), outcome |-> "none",
     reason |-> "none", last_updated |-> 0, parse_now |-> 0, eval_now |-> 0,
     calls |-> 0, attempts |-> 0, registry |-> "none", hub |-> "none"]

\* The overall statistics before any result is added.
NoTotals == [deleted |-> 0, kept |-> 0, protected |-> 0, failed |-> 0, identified |-> 0]

\* AddTotals in which a failure record sets the failed total back to zero.
AddTotals_failure_resets(totals, result) ==
    [deleted |-> totals.deleted + result.deleted,
     kept |-> totals.kept + result.kept,
     protected |-> totals.protected + result.protected,
     failed |-> IF result.failed > 0 THEN totals.failed + result.failed
                ELSE IF result.failed = -1 THEN 0 ELSE totals.failed,
     identified |-> totals.identified + result.identified]

\* One term of the sums of main: total_failed takes failed only when it is
\* positive, which leaves the failure record's -1 out.
AddTotals(totals, result) ==
    [deleted |-> totals.deleted + result.deleted,
     kept |-> totals.kept + result.kept,
     protected |-> totals.protected + result.protected,
     failed |-> totals.failed + (IF result.failed > 0 THEN result.failed ELSE 0),
     identified |-> totals.identified + result.identified]

\* total_deleted, total_kept, total_protected, total_failed and
\* total_identified of main, summed over rs from first to last.
RECURSIVE Totals(_)
Totals(rs) ==
    IF rs = <<>> THEN NoTotals
    ELSE AddTotals(Totals(SubSeq(rs, 1, Len(rs) - 1)), rs[Len(rs)])

\* cleanup_repository has not called get_tags.
\*   hub_fault, hub_n, hub_calls - the failure that ended the paging of the
\*       first get_tags_hub call, the number of tags it returned, and the
\*       times the wrapper invoked get_tags_hub;
\*   token_outcomes, token  - what the requests of the first
\*       get_bearer_token call ended in, and the result of that call;
\*   token_requests         - the token requests made in all;
\*   registry_fault, registry_calls - the failure of the tags/list request,
\*       and the times the wrapper invoked get_tags_registry;
\*   hub_again_fault, hub_again_calls - as hub_fault and hub_calls, for the
\*       get_tags_hub call that get_tags_registry falls back to;
\*   raised, n, source - get_tags raised, or the number of tags it
\*       returned and the API they came from.
NoListing ==
    [called |-> FALSE, hub_fault |-> "none", hub_n |-> 0, hub_calls |-> 0,
     token_outcomes |-> <<>>, token |-> Returned(0, 0), token_requests |-> 0,
     registry_fault |-> "none", registry_calls |-> 0,
     hub_again_fault |-> "none", hub_again_calls |-> 0,
     raised |-> FALSE, n |-> 0, source |-> "none"]

\* -------------------------------------------------------- the token cache

\* Seconds for which get_bearer_token reuses a cached token.
TokenTtl == 240

\* How many calls of get_bearer_token a behaviour of the cache has.
MaxCalls == 3

\* The namespaces and repositories get_bearer_token is called with.
Targets == { <<"acme", "api">>, <<"user", "api">>, <<"acme", "web">> }

\* Seconds that pass between two calls, and while the request is answered.
Elapses == {0, TokenTtl - 1, TokenTtl}
Latencies == {0, 1}

\* What the request for a token gives: a body with a token, a body without
\* one (json().get("token") is None), or a RequestException.
TokenReplies == {"token", "no_token", "error"}

\* f"{namespace}/{repository}": neither part holds a slash, both being parts
\* of a repo_spec split at its slashes, so the two parts determine the key.
cache_key(namespace, repository) == <<namespace, "/", repository>>

CacheKeys == { cache_key(target[1], target[2]) : target \in Targets }

\* The token the auth server issues for the scope of one repository; n tells
\* the tokens of one scope apart.
Token(namespace, repository, n) ==
    [scope |-> <<"repository", namespace, repository>>, n |-> n]

\* The None that json().get("token") gives for a body without a token, and
\* the value of a call that returned nothing.
NoneToken == [scope |-> <<"None">>, n |-> 0]
NoToken == [scope |-> <<>>, n |-> 0]

\* No entry for a key, and an entry.
NoEntry == [present |-> FALSE, token |-> NoToken, created |-> 0]
CacheEntry(token, created) == [present |-> TRUE, token |-> token, created |-> created]

\* self.tokens = {}
NoTokens == [key \in CacheKeys |-> NoEntry]

\* Before the first call of get_bearer_token.
NoTokenCall ==
    [n |-> 0, namespace |-> "none", repository |-> "none", at |-> 0,
     before |-> NoEntry, known |-> NoEntry, cached |-> FALSE, requests |-> 0,
     raised |-> FALSE, returned |-> NoToken]

\* The body of get_bearer_token with the cache check of line 123 passing a
\* token that is exactly TokenTtl seconds old.
get_bearer_token_body_inclusive(cache, namespace, repository, at, reply, latency, n) ==
    LET key == cache_key(namespace, repository)
        entry == cache[key]
        token == IF reply = "token" THEN Token(namespace, repository, n) ELSE NoneToken
    IN  IF entry.present /\ at - entry.created <= TokenTtl
          THEN [cached |-> TRUE, requests |-> 0, raised |-> FALSE,
                returned |-> entry.token, tokens |-> cache, ends |-> at]
        ELSE IF reply = "error"
          THEN [cached |-> FALSE, requests |-> 1, raised |-> TRUE,
                returned |-> NoToken, tokens |-> cache, ends |-> at + latency]
        ELSE [cached |-> FALSE, requests |-> 1, raised |-> FALSE,
              returned |-> token,
              tokens |-> [cache EXCEPT ![key] = CacheEntry(token, at + latency)],
              ends |-> at + latency]

\* The body of DockerHubCleaner.get_bearer_token, called at second `at` with
\* the cache `cache`: a cached token younger than TokenTtl is returned with no
\* request; otherwise one request is made, which takes `latency` seconds, and
\* its token is cached under the key with the time the answer came, or the
\* RequestException is raised again and the cache is left as it is.
get_bearer_token_body(cache, namespace, repository, at, reply, latency, n) ==
    LET key == cache_key(namespace, repository)
        entry == cache[key]
        token == IF reply = "token" THEN Token(namespace, repository, n) ELSE NoneToken
    IN  IF entry.present /\ at - entry.created < TokenTtl
          THEN [cached |-> TRUE, requests |-> 0, raised |-> FALSE,
                returned |-> entry.token, tokens |-> cache, ends |-> at]
        ELSE IF reply = "error"
          THEN [cached |-> FALSE, requests |-> 1, raised |-> TRUE,
                returned |-> NoToken, tokens |-> cache, ends |-> at + latency]
        ELSE [cached |-> FALSE, requests |-> 1, raised |-> FALSE,
              returned |-> token,
              tokens |-> [cache EXCEPT ![key] = CacheEntry(token, at + latency)],
              ends |-> at + latency]

\* The cache of a cleaner that has not asked for a token.
InitTokens ==
    /\ tokens = NoTokens
    /\ seconds = 0
    /\ token_call = NoTokenCall
    /\ stored = [target \in Targets |-> NoEntry]

\* DockerHubCleaner.__init__ : the statistics start at zero.
InitStats ==
    [identified_count |-> 0, deleted_count |-> 0, protected_count |-> 0,
     repositories |-> <<>>]

\* The arguments of a run.  credentials: DOCKERHUB_USERNAME and
\* DOCKERHUB_PASSWORD are both set; json_ok: --custom-patterns is absent or
\* json.loads accepts it.
Args(credentials, json_ok, repositories, dry_run, protected, patterns, pr, sha) ==
    [credentials |-> credentials, json_ok |-> json_ok,
     repositories |-> repositories, dry_run |-> dry_run,
     protected_tags |-> protected, custom_patterns |-> patterns,
     pr_retention |-> pr, sha_retention |-> sha]

\* The runs that a configuration error ends.
BadArgs ==
    { Args(FALSE, TRUE, << <<"web">> >>, FALSE, {}, <<>>, DefaultPrRetention, DefaultShaRetention),
      Args(TRUE, FALSE, << <<"web">> >>, FALSE, {}, <<>>, DefaultPrRetention, DefaultShaRetention),
      Args(TRUE, TRUE, <<>>, FALSE, {}, <<>>, DefaultPrRetention, DefaultShaRetention) }

InitCommon ==
    /\ pc = "config"
    /\ exit_code = -1
    /\ r = 1
    /\ results = <<>>
    /\ failed_repos = <<>>
    /\ stats = InitStats
    /\ invoked = <<>>
    /\ frame = NoFrame
    /\ last = NoLast
    /\ listing = NoListing
    /\ auth = "none"
    /\ summary = NoTotals
    /\ InitTokens

\* One repository, the policies, every tag record, a clock that advances.
InitTags ==
    /\ InitCommon
    /\ clock = 0
    /\ pool = "all"
    /\ args \in BadArgs \cup
         { Args(TRUE, TRUE, << <<"acme", "api">> >>, p.dry_run, p.protected_tags,
                p.custom_patterns, p.pr_retention, p.sha_retention) :
             p \in Policies }

\* Up to MaxRepos repositories, each given without a namespace or with too
\* many parts, the default retention, a short list of tag records, and a
\* run that is over within one tick of the clock.
InitMain ==
    /\ InitCommon
    /\ clock = MaxClock
    /\ pool = "few"
    /\ args \in BadArgs \cup
         { Args(TRUE, TRUE, rs, FALSE, {}, c, DefaultPrRetention, DefaultShaRetention) :
             rs \in SeqsOf(RepoSpecs \ { <<"acme", "api">> }, 1, MaxRepos),
             c \in { <<>>, <<Entry(Pat_invalid, 1)>> } }

\* One repository and one policy whose custom pattern has the window of the
\* PR rule, every tag record, a clock that advances.
InitEval ==
    /\ InitCommon
    /\ clock = 0
    /\ pool = "all"
    /\ args \in BadArgs \cup
         { Args(TRUE, TRUE, << <<"acme", "api">> >>, FALSE, {},
                <<Entry(Pat_nightly, DefaultPrRetention), Entry(Pat_invalid, 1)>>,
                DefaultPrRetention, DefaultShaRetention) }

\* One repository, a short list of tag records, and a network whose
\* requests fail in every way.
InitNet ==
    /\ InitCommon
    /\ clock = MaxClock
    /\ pool = "net"
    /\ args \in BadArgs \cup
         { Args(TRUE, TRUE, rs, FALSE, {}, c, DefaultPrRetention, DefaultShaRetention) :
             rs \in { << <<"web">> >> },
             c \in { <<>>, <<Entry(Pat_invalid, 1)>> } }

\* ------------------------------------------------ cleanup_repository, parts

\* namespace of main: DOCKER_NAMESPACE, or the user name, which is set once
\* the configuration check has passed.
DefaultNamespace == "user"

\* DockerHubCleaner.parse_repository_spec, on repo_spec.split('/').
parse_repository_spec(parts) ==
    IF Len(parts) = 2
      THEN [raised |-> FALSE, has_namespace |-> TRUE,
            namespace |-> parts[1], repository |-> parts[2]]
    ELSE IF Len(parts) = 1
      THEN [raised |-> FALSE, has_namespace |-> FALSE,
            namespace |-> "", repository |-> parts[1]]
    ELSE [raised |-> TRUE, has_namespace |-> FALSE,
          namespace |-> "", repository |-> ""]

\* f"{namespace}/{repository}" of cleanup_repository.
RepositoryId(parts) ==
    LET p == parse_repository_spec(parts)
    IN  <<IF p.has_namespace THEN p.namespace ELSE DefaultNamespace, p.repository>>

\* The failures a listing request of the model may end in.
Faults == {"timeout", "http_error"}

\* What the successive requests of a wrapped function may end in.  What a
\* request that is never made would end in is immaterial: it is "ok" here.
RequestRuns ==
    { s \in [1..max_retries -> RequestOutcomes] :
        \A k \in 1..max_retries :
            k > retry_with_backoff(s).attempts => s[k] = "ok" }

\* What the token requests may end in, for each invocation of
\* get_tags_registry by its wrapper: every sequence for the first when the
\* pool is "net", and otherwise requests that all succeed or all time out.
TokenAnswers ==
    IF pool = "net"
      THEN { [k \in 1..max_retries |-> IF k = 1 THEN first ELSE later] :
               first \in RequestRuns,
               later \in {Always("ok"), Always("timeout")} }
      ELSE { Always(Always("ok")), Always(Always("timeout")) }

\* What the network answers while get_tags runs:
\*   hub, hub_fault - the number of tags get_tags_hub collects before its
\*               paging ends, and the failure that ended it ("none": the
\*               last page was reached);
\*   token     - what the token requests end in;
\*   registry  - what the Registry tags/list request ends in;
\*   names     - the number of names the Registry lists;
\*   hub_again, hub_again_fault - as hub and hub_fault, when
\*               get_tags_registry falls back to get_tags_hub.
\* Failures of the listing requests are drawn when the pool is "net", and
\* then tags come from the first get_tags_hub call only; the fallback of
\* get_tags_registry, which is only reached after a failure, lists no tag.
Answers ==
    LET lengths == 0..(IF pool = "all" THEN MaxTags ELSE MaxFewTags)
        faults == IF pool = "net" THEN Faults \cup {"none"} ELSE {"none"}
    IN  [hub : lengths, hub_fault : faults, token : TokenAnswers,
         registry : (faults \ {"none"}) \cup {"ok"},
         names : IF pool = "net" THEN {0} ELSE lengths,
         hub_again : {0}, hub_again_fault : faults]

\* get_tags_hub under its wrapper: every RequestException is caught in the
\* function, which returns what it has collected, so the wrapper sees one
\* invocation that returns.
get_tags_hub(n, fault) ==
    [tags |-> n, fault |-> fault, call |-> retry_with_backoff(Always("ok"))]

\* get_bearer_token under its wrapper, for the k-th invocation of
\* get_tags_registry: a RequestException of the request is raised again.
get_bearer_token(a, k) == retry_with_backoff(a.token[k])

\* The element of a set of one element.  Written { e(x) : x \in {v} }, the
\* set has v computed once, however often e uses x.
The(S) == CHOOSE x \in S : TRUE

\* get_tags_registry under its wrapper.  The token is fetched outside the
\* try block, so what get_bearer_token raises ends the invocation; with a
\* token the invocation returns, the names listed or what get_tags_hub gives.
get_tags_registry(a) ==
    LET Requests(attempts) ==
            LET Sum[k \in 0..max_retries] ==
                    IF k = 0 THEN 0
                    ELSE Sum[k - 1] + get_bearer_token(a, k).attempts
            IN  Sum[attempts]
        Result(call, again) ==
            [call |-> call, token_requests |-> Requests(call.attempts),
             listed |-> ~call.raised /\ a.registry = "ok",
             fault |-> IF ~call.raised /\ a.registry # "ok" THEN a.registry ELSE "none",
             again_calls |-> IF ~call.raised /\ a.registry # "ok"
                               THEN again.call.attempts ELSE 0,
             again_fault |-> IF ~call.raised /\ a.registry # "ok"
                               THEN again.fault ELSE "none",
             tags |-> IF call.raised THEN 0
                      ELSE IF a.registry = "ok" THEN a.names ELSE again.tags]
    IN  The({ Result(call, again) :
                call \in { retry_with_backoff(
                    [k \in 1..max_retries |-> Propagated(get_bearer_token(a, k))]) },
                again \in { get_tags_hub(a.hub_again, a.hub_again_fault) } })

\* get_tags calling get_tags_registry whenever get_tags_hub met a failure,
\* whatever it had collected.
GetTags_fallback_on_failure(hub, registry) ==
    IF hub.tags > 0 /\ hub.fault = "none"
      THEN [fallback |-> FALSE, raised |-> FALSE, n |-> hub.tags, source |-> "hub"]
    ELSE IF registry.call.raised
      THEN [fallback |-> TRUE, raised |-> TRUE, n |-> 0, source |-> "none"]
    ELSE IF registry.listed
      THEN [fallback |-> TRUE, raised |-> FALSE, n |-> registry.tags,
            source |-> "registry"]
    ELSE [fallback |-> TRUE, raised |-> FALSE, n |-> registry.tags, source |-> "hub"]

\* The body of get_tags, given what its two calls give: fallback tells
\* whether get_tags_registry is called.
GetTags(hub, registry) ==
    IF hub.tags > 0
      THEN [fallback |-> FALSE, raised |-> FALSE, n |-> hub.tags, source |-> "hub"]
    ELSE IF registry.call.raised
      THEN [fallback |-> TRUE, raised |-> TRUE, n |-> 0, source |-> "none"]
    ELSE IF registry.listed
      THEN [fallback |-> TRUE, raised |-> FALSE, n |-> registry.tags,
            source |-> "registry"]
    ELSE [fallback |-> TRUE, raised |-> FALSE, n |-> registry.tags, source |-> "hub"]

\* DockerHubCleaner.get_tags, with get_tags_hub and get_tags_registry: the
\* length and the origin of the list, or raised.
get_tags(a) ==
    The({ GetTags(hub, registry) :
            hub \in { get_tags_hub(a.hub, a.hub_fault) },
            registry \in { get_tags_registry(a) } })

\* What get_tags did, for the record.
Listing(a) ==
    LET Record(hub, registry, token) ==
            LET tags == GetTags(hub, registry)
                base == [NoListing EXCEPT !.called = TRUE,
                                          !.hub_fault = hub.fault,
                                          !.hub_n = hub.tags,
                                          !.hub_calls = hub.call.attempts,
                                          !.raised = tags.raised,
                                          !.n = tags.n,
                                          !.source = tags.source]
            IN  IF ~tags.fallback THEN base
                ELSE [base EXCEPT
                        !.token_outcomes = SubSeq(a.token[1], 1, token.attempts),
                        !.token = token,
                        !.token_requests = registry.token_requests,
                        !.registry_fault = registry.fault,
                        !.registry_calls = registry.call.attempts,
                        !.hub_again_fault = registry.again_fault,
                        !.hub_again_calls = registry.again_calls]
    IN  The({ Record(hub, registry, token) :
                hub \in { get_tags_hub(a.hub, a.hub_fault) },
                registry \in { get_tags_registry(a) },
                token \in { get_bearer_token(a, 1) } })

\* The result main appends when cleanup_repository raised.
FailureResult(repo_spec) ==
    [repository |-> repo_spec, total_tags |-> 0, protected |-> 0, deleted |-> 0,
     kept |-> 0, failed |-> -1, identified |-> 0]

\* repo_stats of cleanup_repository when get_tags gave no tag.
EmptyStats(id) ==
    [repository |-> id, total_tags |-> 0, protected |-> 0, deleted |-> 0,
     kept |-> 0, failed |-> 0, identified |-> 0]

\* repo_stats of cleanup_repository after the tag loop.
RepoStats(f) ==
    [repository |-> f.repository, total_tags |-> f.total_tags,
     protected |-> f.protected_count, deleted |-> f.deleted_count,
     kept |-> f.kept_count, failed |-> f.failed_count,
     identified |-> f.identified_count]

\* ParseLastUpdated with a malformed value taken for an absent one.
ParseLastUpdated_malformed_as_absent(lu, parse_now) ==
    IF lu.kind = "iso" THEN [raised |-> FALSE, value |-> lu.t]
    ELSE [raised |-> FALSE, value |-> parse_now - Timedelta(AssumedAgeDays)]

\* The try block that parses last_updated: the value, or raised for a value
\* strptime rejects.  parse_now is datetime.now() read for an absent value.
ParseLastUpdated(lu, parse_now) ==
    IF lu.kind = "iso" THEN [raised |-> FALSE, value |-> lu.t]
    ELSE IF lu.kind = "absent"
      THEN [raised |-> FALSE, value |-> parse_now - Timedelta(AssumedAgeDays)]
    ELSE [raised |-> TRUE, value |-> 0]

\* One pass of the body of "for tag in tags": what becomes of the tag.
\* outcome is "skipped" (no name, nothing counted), "kept", "protected",
\* "deleted", "failed", or "raised" (should_delete_tag raised); calls is the
\* number of delete_tag calls made, and attempts the number of times the
\* wrapper invoked delete_tag, which catches what its requests raise and
\* returns.
TagStep(tag, a, parse_now, eval_now, registry, hub) ==
    LET parsed == ParseLastUpdated(tag.last_updated, parse_now)
        verdict == should_delete_tag(tag.name, parsed.value, frame.pr_cutoff,
                                     frame.sha_cutoff, a.custom_patterns, eval_now)
        base == [NoLast EXCEPT !.tag = tag, !.parse_now = parse_now,
                               !.eval_now = eval_now]
    IN  IF tag.name = NoName
          THEN [base EXCEPT !.outcome = "skipped"]
        ELSE IF parsed.raised
          THEN [base EXCEPT !.outcome = "kept", !.reason = "date"]
        ELSE IF is_protected_tag(tag.name, a.protected_tags)
          THEN [base EXCEPT !.outcome = "protected", !.reason = "protected",
                            !.last_updated = parsed.value]
        ELSE IF verdict.raised
          THEN [base EXCEPT !.outcome = "raised", !.reason = "error",
                            !.last_updated = parsed.value]
        ELSE IF verdict.delete
          THEN [base EXCEPT !.outcome =
                                IF delete_tag(a.dry_run, registry, hub)
                                  THEN "deleted" ELSE "failed",
                            !.reason = verdict.reason,
                            !.last_updated = parsed.value,
                            !.calls = 1,
                            !.attempts = retry_with_backoff(Always("ok")).attempts,
                            !.registry = IF a.dry_run THEN "none" ELSE registry,
                            !.hub = IF a.dry_run THEN "none" ELSE hub]
        ELSE [base EXCEPT !.outcome = "kept", !.reason = verdict.reason,
                          !.last_updated = parsed.value]

\* Count with a failed deletion counted as kept too.
Count_failed_as_kept(f, step) ==
    [f EXCEPT
       !.i = @ + 1,
       !.kept_count = @ + (IF step.outcome \in {"kept", "failed"} THEN 1 ELSE 0),
       !.protected_count = @ + (IF step.outcome = "protected" THEN 1 ELSE 0),
       !.identified_count = @ + (IF step.outcome \in {"deleted", "failed"} THEN 1 ELSE 0),
       !.deleted_count = @ + (IF step.outcome = "deleted" THEN 1 ELSE 0),
       !.failed_count = @ + (IF step.outcome = "failed" THEN 1 ELSE 0),
       !.delete_calls = @ + step.calls]

\* The counters of cleanup_repository after a pass with the outcome of step.
Count(f, step) ==
    [f EXCEPT
       !.i = @ + 1,
       !.kept_count = @ + (IF step.outcome = "kept" THEN 1 ELSE 0),
       !.protected_count = @ + (IF step.outcome = "protected" THEN 1 ELSE 0),
       !.identified_count = @ + (IF step.outcome \in {"deleted", "failed"} THEN 1 ELSE 0),
       !.deleted_count = @ + (IF step.outcome = "deleted" THEN 1 ELSE 0),
       !.failed_count = @ + (IF step.outcome = "failed" THEN 1 ELSE 0),
       !.delete_calls = @ + step.calls]

\* self.stats after a pass with the outcome of step.
CountStats(st, step) ==
    [st EXCEPT
       !.protected_count = @ + (IF step.outcome = "protected" THEN 1 ELSE 0),
       !.identified_count = @ + (IF step.outcome \in {"deleted", "failed"} THEN 1 ELSE 0),
       !.deleted_count = @ + (IF step.outcome = "deleted" THEN 1 ELSE 0)]

\* ----------------------------------------------------------------- actions

\* The ticks that may pass before a reading of the clock: needed says
\* whether the program uses the reading.
Advance(from, needed) == {d \in 0..1 : from + d <= MaxClock /\ (d = 0 \/ needed)}

\* main: a missing credential, no repository or malformed custom-pattern
\* JSON ends the run with status 2.
ConfigurationError ==
    /\ pc = "config"
    /\ ~args.credentials \/ args.repositories = <<>> \/ ~args.json_ok
    /\ pc' = "exit"
    /\ exit_code' = 2
    /\ UNCHANGED <<cache_vars, clock, pool, args, r, results, failed_repos, stats, invoked,
                   frame, last,
                   listing, auth, summary>>

\* main: the configuration is accepted and the cleaner is built.
ConfigurationAccepted ==
    /\ pc = "config"
    /\ args.credentials /\ args.repositories # <<>> /\ args.json_ok
    /\ pc' = "auth"
    /\ UNCHANGED <<cache_vars, exit_code, clock, pool, args, r, results, failed_repos, stats,
                   invoked, frame, last,
                   listing, auth, summary>>

\* What the request of test_authentication may give: status 200, another
\* status, or an exception.
AuthAnswers == {"200", "status", "exception"}

\* test_authentication that accepts every answered request.
test_authentication_any_status(answer) == answer # "exception"

\* DockerHubCleaner.test_authentication: True for status 200 only.
test_authentication(answer) == answer = "200"

\* main: test_authentication returns False (another status than 200, or an
\* exception) and the run ends with status 2.
AuthenticationFails ==
    /\ pc = "auth"
    /\ \E answer \in AuthAnswers :
         ~test_authentication(answer) /\ auth' = answer
    /\ pc' = "exit"
    /\ exit_code' = 2
    /\ UNCHANGED <<cache_vars, clock, pool, args, r, results, failed_repos, stats, invoked,
                   frame, last, listing, summary>>

\* main: test_authentication returns True.
AuthenticationSucceeds ==
    /\ pc = "auth"
    /\ \E answer \in AuthAnswers :
         test_authentication(answer) /\ auth' = answer
    /\ pc' = "loop"
    /\ UNCHANGED <<cache_vars, exit_code, clock, pool, args, r, results, failed_repos, stats,
                   invoked, frame, last, listing, summary>>

\* HandleException leaving the loop of main instead of going on.
HandleException_break(repo_spec) ==
    /\ results' = Append(results, FailureResult(repo_spec))
    /\ failed_repos' = Append(failed_repos, repo_spec)
    /\ r' = Len(args.repositories) + 1
    /\ pc' = "loop"
    /\ frame' = NoFrame

\* main's except clause: the repository is recorded as a complete failure
\* and the loop goes on with the next one.
HandleException(repo_spec) ==
    /\ results' = Append(results, FailureResult(repo_spec))
    /\ failed_repos' = Append(failed_repos, repo_spec)
    /\ r' = r + 1
    /\ pc' = "loop"
    /\ frame' = NoFrame

\* HandleResult that never puts the repository in failed_repos.
HandleResult_ignoring_failed(result) ==
    /\ results' = Append(results, result)
    /\ failed_repos' = failed_repos
    /\ r' = r + 1
    /\ pc' = "loop"
    /\ frame' = NoFrame

\* main after cleanup_repository returned result, a repo_stats.
HandleResult(result) ==
    /\ results' = Append(results, result)
    /\ failed_repos' = IF result.failed > 0
                         THEN Append(failed_repos, result.repository)
                         ELSE failed_repos
    /\ r' = r + 1
    /\ pc' = "loop"
    /\ frame' = NoFrame

\* cleanup_repository is called for the next repository and raises before
\* its tag loop: parse_repository_spec rejects the specification, or
\* get_tags raises.
RepositoryRaises ==
    /\ pc = "loop" /\ r <= Len(args.repositories)
    /\ LET repo_spec == args.repositories[r]
       IN  /\ \/ /\ parse_repository_spec(repo_spec).raised
                 /\ listing' = NoListing
              \/ /\ ~parse_repository_spec(repo_spec).raised
                 /\ \E a \in Answers : \E l \in { Listing(a) } :
                      l.raised /\ listing' = l
           /\ invoked' = Append(invoked, repo_spec)
           /\ HandleException(repo_spec)
    /\ UNCHANGED <<cache_vars, exit_code, clock, pool, args, stats, last, auth, summary>>

\* cleanup_repository is called for the next repository and get_tags gives
\* no tag: all-zero statistics are appended and returned.
RepositoryEmpty ==
    /\ pc = "loop" /\ r <= Len(args.repositories)
    /\ LET repo_spec == args.repositories[r]
       IN  /\ ~parse_repository_spec(repo_spec).raised
           /\ \E a \in Answers : \E l \in { Listing(a) } :
                /\ ~l.raised /\ l.n = 0
                /\ listing' = l
           /\ invoked' = Append(invoked, repo_spec)
           /\ stats' = [stats EXCEPT !.repositories =
                            Append(@, EmptyStats(RepositoryId(repo_spec)))]
           /\ HandleResult(EmptyStats(RepositoryId(repo_spec)))
    /\ UNCHANGED <<cache_vars, exit_code, clock, pool, args, last, auth, summary>>

\* cleanup_repository is called for the next repository and get_tags gives
\* tags: now is read, the cutoffs are computed and the counters start at 0.
\* Time may pass between the Registry's listing, which stamps the tags with
\* the clock, and the reading of now; the dates of a Hub listing do not
\* depend on the clock.
RepositoryListed ==
    /\ pc = "loop" /\ r <= Len(args.repositories)
    /\ LET repo_spec == args.repositories[r]
       IN  /\ ~parse_repository_spec(repo_spec).raised
           /\ \E a \in Answers : \E l \in { Listing(a) } :
                /\ ~l.raised /\ l.n > 0
                /\ \E d \in Advance(clock, l.source = "registry") :
                     /\ clock' = clock + d
                     /\ listing' = l
                     /\ frame' = [NoFrame EXCEPT
                              !.repository = RepositoryId(repo_spec),
                              !.total_tags = l.n,
                              !.source = l.source,
                              !.listed_at = clock,
                              !.now = clock + d,
                              !.pr_cutoff = clock + d - Timedelta(args.pr_retention),
                              !.sha_cutoff = clock + d - Timedelta(args.sha_retention)]
           /\ invoked' = Append(invoked, repo_spec)
    /\ pc' = "tags"
    /\ last' = NoLast
    /\ UNCHANGED <<cache_vars, exit_code, pool, args, r, results, failed_repos, stats, auth, summary>>

\* The Registry names listed without a last_updated, which the tag loop takes
\* for AssumedAgeDays old.
ListedTags_registry_undated ==
    LET listed == IF pool = "few" THEN FewTags ELSE AllTags
    IN  IF frame.source = "registry"
          THEN { Tag(t.name, LastUpdated("absent", 0)) :
                   t \in {u \in listed : u.name # NoName} }
          ELSE listed

\* The records tags[i] may be: one of the pool from the Hub; from the
\* Registry, a name with the listing time as last_updated.
ListedTags ==
    LET listed == IF pool = "few" THEN FewTags ELSE AllTags
    IN  IF frame.source = "registry"
          THEN { Tag(t.name, LastUpdated("iso", frame.listed_at)) :
                   t \in {u \in listed : u.name # NoName} }
          ELSE listed

\* The outcomes of the two deletion paths of delete_tag: the Registry path,
\* and the Hub path that is tried when the Registry path raised.  Timeouts
\* are told apart from other failures when the pool is "net".
Outcomes ==
    { <<"ok", "none">> } \cup
    { <<g, h>> : g \in {"notfound", "error"}, h \in {"ok", "notfound", "error"} } \cup
    (IF pool = "net" THEN { <<"timeout", "ok">>, <<"timeout", "timeout">> } ELSE {})

\* What one pass of the tag loop may do with the next tag: time may pass
\* before datetime.now() is read for an absent date and before it is read
\* again for a custom pattern, and the network decides a deletion.
Steps ==
    UNION { UNION { UNION {
        LET dry == TagStep(tag, args, clock + d1, clock + d1 + d2, "ok", "none")
        IN  IF dry.calls = 0
              THEN {dry}
              ELSE { TagStep(tag, args, clock + d1, clock + d1 + d2, o[1], o[2]) :
                       o \in Outcomes }
        : d2 \in Advance(clock + d1,
                         /\ tag.name # NoName
                         /\ FirstCustomStop(args.custom_patterns, tag.name) # 0) }
        : d1 \in Advance(clock, tag.last_updated.kind = "absent") }
        : tag \in ListedTags }

\* One pass of the tag loop that ends normally.
ProcessTag ==
    /\ pc = "tags" /\ frame.i < frame.total_tags
    /\ \E step \in Steps :
         /\ step.outcome # "raised"
         /\ last' = step
         /\ clock' = step.eval_now
         /\ frame' = Count(frame, step)
         /\ stats' = CountStats(stats, step)
    /\ UNCHANGED <<cache_vars, pc, exit_code, pool, args, r, results, failed_repos, invoked,
                   listing, auth, summary>>

\* One pass of the tag loop in which should_delete_tag raises: the
\* exception leaves cleanup_repository and main's except clause handles it.
ProcessTagRaises ==
    /\ pc = "tags" /\ frame.i < frame.total_tags
    /\ \E step \in Steps :
         /\ step.outcome = "raised"
         /\ last' = step
         /\ clock' = step.eval_now
    /\ HandleException(args.repositories[r])
    /\ UNCHANGED <<cache_vars, exit_code, pool, args, stats, invoked,
                   listing, auth, summary>>

\* The tag loop is over: repo_stats is appended to stats and returned to main.
FinishRepository ==
    /\ pc = "tags" /\ frame.i = frame.total_tags
    /\ stats' = [stats EXCEPT !.repositories = Append(@, RepoStats(frame))]
    /\ HandleResult(RepoStats(frame))
    /\ last' = NoLast
    /\ UNCHANGED <<cache_vars, exit_code, clock, pool, args, invoked,
                   listing, auth, summary>>

\* sys.exit status after the loop of main.
ExitStatus(failed) == IF failed # <<>> THEN 1 ELSE 0

\* main after its loop: the summary is written and the process exits.
Finish ==
    /\ pc = "loop" /\ r > Len(args.repositories)
    /\ pc' = "exit"
    /\ exit_code' = ExitStatus(failed_repos)
    /\ summary' = Totals(results)
    /\ UNCHANGED <<cache_vars, clock, pool, args, r, results, failed_repos, stats, invoked,
                   frame, last,
                   listing, auth>>

\* One call of get_bearer_token, some seconds after the latest one, from
\* get_tags_registry or delete_tag, or from the wrapper trying again.
GetBearerToken ==
    /\ pc = "tokens"
    /\ token_call.n < MaxCalls
    /\ \E target \in Targets, d \in Elapses, reply \in TokenReplies,
          latency \in Latencies :
         \E call \in { get_bearer_token_body(tokens, target[1], target[2], seconds + d,
                                             reply, latency, token_call.n + 1) } :
           /\ tokens' = call.tokens
           /\ seconds' = call.ends
           /\ token_call' = [n |-> token_call.n + 1, namespace |-> target[1],
                             repository |-> target[2], at |-> seconds + d,
                             before |-> tokens[cache_key(target[1], target[2])],
                             known |-> stored[target],
                             cached |-> call.cached, requests |-> call.requests,
                             raised |-> call.raised, returned |-> call.returned]
           /\ stored' = IF call.requests = 1 /\ ~call.raised
                          THEN [stored EXCEPT ![target] =
                                   CacheEntry(call.returned, call.ends)]
                          ELSE stored
    /\ UNCHANGED <<pc, exit_code, clock, pool, args, r, results, failed_repos, stats,
                   invoked, frame, last, listing, auth, summary>>

Next ==
    \/ ConfigurationError
    \/ ConfigurationAccepted
    \/ AuthenticationFails
    \/ AuthenticationSucceeds
    \/ RepositoryRaises
    \/ RepositoryEmpty
    \/ RepositoryListed
    \/ ProcessTag
    \/ ProcessTagRaises
    \/ FinishRepository
    \/ Finish

\* One repository with every policy and every tag record.
Spec == InitTags /\ [][Next]_vars

\* Several repositories.
MainSpec == InitMain /\ [][Next]_vars

\* Several repositories, and the program keeps running until it exits.
FairMainSpec == InitMain /\ [][Next]_vars /\ WF_vars(Next)

\* One repository whose tags are evaluated as the clock advances.
EvalSpec == InitEval /\ [][Next]_vars

\* One repository on a network that fails.
NetSpec == InitNet /\ [][Next]_vars

\* A cleaner whose get_bearer_token is called again and again.
InitCache ==
    /\ pc = "tokens"
    /\ exit_code = -1
    /\ clock = 0
    /\ pool = "few"
    /\ args = Args(TRUE, TRUE, << <<"web">> >>, FALSE, {}, <<>>,
                   DefaultPrRetention, DefaultShaRetention)
    /\ r = 1
    /\ results = <<>>
    /\ failed_repos = <<>>
    /\ stats = InitStats
    /\ invoked = <<>>
    /\ frame = NoFrame
    /\ last = NoLast
    /\ listing = NoListing
    /\ auth = "none"
    /\ summary = NoTotals
    /\ InitTokens

\* The calls of get_bearer_token.
CacheNext == GetBearerToken

\* The token cache under every sequence of calls.
CacheSpec == InitCache /\ [][CacheNext]_vars

\* ------------------------------------------------------- claims: vocabulary

\* The tag loop has handled a named tag in the running repository.
Handled == last.outcome # "none" /\ last.tag.name # NoName

\* The latest tag was identified for deletion.
Identified == last.outcome \in {"deleted", "failed"}

\* The name is one the policy protects: it is all of latest, main, master,
\* develop, N, N.N, N.N.N or vN.N.N, or it is in the protected-tag list.
ProtectedName(n) == ProtectedBody(n) \/ n \in args.protected_tags

\* The name is not protected: is_protected_tag answers False for it.
Unprotected(n) == ~is_protected_tag(n, args.protected_tags)

\* The custom patterns that match name n, by position.
MatchingCustom(n) ==
    {k \in 1..Len(args.custom_patterns) :
        /\ args.custom_patterns[k].pattern.valid
        /\ CustomMatches(args.custom_patterns[k].pattern, n)}

\* Every custom pattern compiles and none matches name n.
NoCustomMatches(n) ==
    \A k \in 1..Len(args.custom_patterns) :
        /\ args.custom_patterns[k].pattern.valid
        /\ ~CustomMatches(args.custom_patterns[k].pattern, n)

\* k is the first custom pattern that matches n, and those before it compile.
FirstMatching(k, n) ==
    /\ k \in MatchingCustom(n)
    /\ \A j \in 1..(k - 1) :
         /\ args.custom_patterns[j].pattern.valid
         /\ j \notin MatchingCustom(n)

\* ------------------------------------------------------------------ claims

\* C1: a tag whose name the built-in pattern or the protected-tag list
\* protects is never handed to delete_tag, whatever its date and whatever
\* custom patterns are configured: the pass makes no delete_tag call and the
\* tag ends as protected, or as kept when its date is malformed.
C1_ProtectedNeverDeleted ==
    (Handled /\ ProtectedName(last.tag.name))
        => (last.calls = 0 /\ last.outcome \in {"protected", "kept"})

\* C1 witness: pr-7, protected by the list, with no date and with a custom
\* pattern that matches it, has been handled as protected.
C1_Witness ==
    /\ last.outcome = "protected"
    /\ last.tag = Tag(Name_pr_7, LastUpdated("absent", 0))
    /\ MatchingCustom(Name_pr_7) # {}
    /\ frame.delete_calls = 0

\* C2, as claimed: every statistics record cleanup_repository returns counts
\* each listed tag in exactly one bucket, so protected + deleted + kept +
\* failed = total_tags.
C2_BucketsPartition ==
    \A k \in 1..Len(stats.repositories) :
        LET st == stats.repositories[k]
        IN  st.protected + st.deleted + st.kept + st.failed = st.total_tags

\* C3: a named tag that is not protected and matches no custom pattern, nor
\* the PR pattern, nor the SHA pattern is kept whatever its date: no
\* delete_tag call is made for it and it is counted as kept.
C3_UnknownKept ==
    (/\ Handled
     /\ Unprotected(last.tag.name)
     /\ NoCustomMatches(last.tag.name)
     /\ ~MatchesPrPattern(last.tag.name)
     /\ ~MatchesShaPattern(last.tag.name))
        => (last.calls = 0 /\ last.outcome = "kept")

\* C3 witness: mystery, without a date, is kept as unknown under a policy
\* that has a custom pattern.
C3_Witness ==
    /\ last.tag = Tag(Name_mystery, LastUpdated("absent", 0))
    /\ last.outcome = "kept" /\ last.reason = "unknown"
    /\ args.custom_patterns # <<>>
    /\ frame.kept_count = 1

\* C4: a named, unprotected tag with a parsable date that matches no custom
\* pattern is identified for deletion, when its name is a PR name, exactly
\* if the date is strictly before now - pr_retention_days, and when its
\* name is a SHA name, exactly if the date is strictly before
\* now - sha_retention_days; now is the instant read once at the start of
\* the repository's tag loop.
C4_AgeRule ==
    (/\ Handled
     /\ last.tag.last_updated.kind = "iso"
     /\ Unprotected(last.tag.name)
     /\ NoCustomMatches(last.tag.name))
        => /\ MatchesPrPattern(last.tag.name)
                => (Identified <=>
                      last.tag.last_updated.t < frame.now - Timedelta(args.pr_retention))
           /\ MatchesShaPattern(last.tag.name)
                => (Identified <=>
                      last.tag.last_updated.t < frame.now - Timedelta(args.sha_retention))

\* C4 witness: pr-42 dated exactly at the PR cutoff has been kept.
C4_Witness ==
    /\ last.tag.name = Name_pr_42
    /\ last.tag.last_updated.kind = "iso"
    /\ last.tag.last_updated.t = frame.now - Timedelta(args.pr_retention)
    /\ NoCustomMatches(Name_pr_42)
    /\ last.outcome = "kept" /\ last.reason = "pr"

\* C5: for a named, unprotected tag with a usable date, the first custom
\* pattern that matches the name decides, with reason custom: the tag is
\* identified exactly if its date is strictly before the clock reading minus
\* that pattern's window, whatever later custom patterns, the PR rule or the
\* SHA rule would say.
C5_FirstCustomDecides ==
    \A k \in 1..Len(args.custom_patterns) :
        (/\ Handled
         /\ last.tag.last_updated.kind # "malformed"
         /\ Unprotected(last.tag.name)
         /\ FirstMatching(k, last.tag.name))
            => /\ last.reason = "custom"
               /\ Identified <=>
                    last.last_updated <
                        last.eval_now - Timedelta(args.custom_patterns[k].days)

\* C5 witness: pr-42, dated at the PR cutoff, matches the first custom
\* pattern (7 days) and a later one (60 days); it has been identified,
\* though the later pattern and the PR rule would both keep it.
C5_Witness ==
    /\ last.tag.name = Name_pr_42
    /\ last.tag.last_updated.kind = "iso"
    /\ Cardinality(MatchingCustom(Name_pr_42)) >= 2
    /\ FirstMatching(1, Name_pr_42)
    /\ MatchesPrPattern(Name_pr_42)
    /\ Identified /\ last.reason = "custom"
    /\ ~(last.last_updated < frame.pr_cutoff)
    /\ ~(last.last_updated < last.eval_now - Timedelta(args.custom_patterns[2].days))

\* The family of name n has a window of d days: the first custom pattern
\* that matches n has it, or no custom pattern matches n and it is the
\* window of the PR rule or SHA rule that n falls under.
FamilyWindow(n, d) ==
    \/ \E k \in 1..Len(args.custom_patterns) :
         FirstMatching(k, n) /\ d = args.custom_patterns[k].days
    \/ NoCustomMatches(n) /\ MatchesPrPattern(n) /\ d = args.pr_retention
    \/ NoCustomMatches(n) /\ ~MatchesPrPattern(n) /\ MatchesShaPattern(n)
         /\ d = args.sha_retention

\* The windows the policies of the model configure.
Windows ==
    {args.pr_retention, args.sha_retention}
        \cup {args.custom_patterns[k].days : k \in 1..Len(args.custom_patterns)}

\* C6, as claimed: a named, unprotected tag without a last_updated value
\* whose name falls in an ephemeral family (custom, PR or SHA) is identified
\* for deletion, for every non-negative window of that family.
C6_AbsentDateAlwaysIdentified ==
    (/\ Handled
     /\ last.tag.last_updated.kind = "absent"
     /\ Unprotected(last.tag.name)
     /\ \E d \in Windows : d >= 0 /\ FamilyWindow(last.tag.name, d))
        => Identified

\* C7: a pass for a named tag whose last_updated is present but cannot be
\* parsed adds one to kept and to nothing else, makes no delete_tag call,
\* and the loop goes on to the next tag.
C7_MalformedDateKept ==
    [][(/\ pc = "tags" /\ frame.i < frame.total_tags
        /\ last' # last \/ frame' # frame
        /\ last'.tag.name # NoName
        /\ last'.tag.last_updated.kind = "malformed")
          => /\ last'.outcome = "kept" /\ last'.calls = 0
             /\ pc' = "tags"
             /\ frame' = [frame EXCEPT !.i = @ + 1, !.kept_count = @ + 1]
             /\ stats' = stats]_vars

\* C7 witness: pr-42 with a malformed date was kept as the first of two
\* tags, under a policy that would delete an old pr-42, and the loop is at
\* the second tag.
C7_Witness ==
    /\ last.tag = Tag(Name_pr_42, LastUpdated("malformed", 0))
    /\ last.outcome = "kept"
    /\ ~args.dry_run /\ Unprotected(Name_pr_42)
    /\ pc = "tags" /\ frame.i = 1 /\ frame.total_tags = 2
    /\ frame.kept_count = 1 /\ frame.identified_count = 0

\* C8: a pass that identifies a tag makes exactly one delete_tag call and
\* counts the tag as deleted when the call returns True and as failed when
\* it returns False, never as kept, and the loop goes on to the next tag;
\* so identified = deleted + failed = the number of delete_tag calls, in the
\* running repository and in every statistics record returned.
C8_IdentifiedDeletedOrFailed ==
    /\ [](/\ frame.identified_count = frame.deleted_count + frame.failed_count
          /\ frame.identified_count = frame.delete_calls
          /\ \A k \in 1..Len(stats.repositories) :
               stats.repositories[k].identified =
                 stats.repositories[k].deleted + stats.repositories[k].failed)
    /\ [][(pc = "tags" /\ frame'.identified_count = frame.identified_count + 1)
            => /\ last'.calls = 1
               /\ pc' = "tags"
               /\ LET success == delete_tag(args.dry_run, last'.registry, last'.hub)
                  IN  frame' = [frame EXCEPT
                                  !.i = @ + 1,
                                  !.identified_count = @ + 1,
                                  !.delete_calls = @ + 1,
                                  !.deleted_count = @ + (IF success THEN 1 ELSE 0),
                                  !.failed_count = @ + (IF success THEN 0 ELSE 1)]]_vars

\* C8 witness: in one repository a deletion failed and then the next tag
\* was identified and deleted.
C8_Witness ==
    /\ pc = "tags" /\ frame.i = 2
    /\ frame.failed_count = 1 /\ frame.deleted_count = 1
    /\ frame.kept_count = 0
    /\ last.outcome = "deleted" /\ last.calls = 1

\* C9, as claimed: when the Registry and the Hub both answer not-found for
\* the tag delete_tag is called for, the tag is counted as deleted.
C9_AlreadyGoneIsSuccess ==
    (Handled /\ last.calls = 1
       /\ last.registry = "notfound" /\ last.hub = "notfound")
        => last.outcome = "deleted"

\* s is an initial part of t.
IsPrefix(s, t) == Len(s) <= Len(t) /\ SubSeq(t, 1, Len(s)) = s

\* C10: cleanup_repository is called once for each repository given, in the
\* order given, whatever the outcome of each call (statistics or an
\* exception); and a run that has passed the configuration and
\* authentication checks reaches the exit after its loop.
C10_EveryRepositoryProcessed ==
    /\ [](IsPrefix(invoked, args.repositories))
    /\ []((pc = "exit" /\ exit_code # 2)
            => (invoked = args.repositories /\ Len(results) = Len(invoked)))
    /\ [](pc = "loop" => <>(pc = "exit" /\ exit_code \in {0, 1}))

\* C10 witness: the run has exited after two repositories; the first ended
\* with an exception and the second was processed to its statistics.
C10_Witness ==
    /\ pc = "exit"
    /\ Len(args.repositories) = 2 /\ invoked = args.repositories
    /\ results[1].failed = -1
    /\ results[2].failed # -1

\* The latest cleanup_repository call is over and main has recorded it.
Recorded == Len(results) = Len(invoked) /\ Len(results) > 0

\* Listing the tags of the latest repository failed: the first Hub request
\* errored, and so did the Registry path (the token fetch, or the tags/list
\* request and the first Hub request of the fallback).
ListingFailed ==
    /\ listing.called
    /\ listing.hub_fault # "none" /\ listing.n = 0
    /\ \/ listing.raised
       \/ listing.registry_fault # "none" /\ listing.hub_again_fault # "none"

\* C11, as claimed: when listing a repository's tags fails, the result
\* recorded for that repository is the complete failure, with failed = -1,
\* and not the all-zero result of a repository without tags.
C11_ListingFailureRecorded ==
    (Recorded /\ ListingFailed) => results[Len(results)].failed = -1

\* The run passed configuration and authentication and has exited.
Completed == pc = "exit" /\ exit_code # 2

\* C12, as claimed: after a run that passed configuration and
\* authentication, stats["repositories"], which is what the JSON summary
\* shows, holds exactly one entry for each repository given, in the order
\* given, the failure record of a repository whose processing raised
\* included.
C12_SummaryHasEveryRepository ==
    Completed =>
        /\ Len(stats.repositories) = Len(args.repositories)
        /\ \A k \in 1..Len(stats.repositories) :
               stats.repositories[k] = results[k]

\* Some recorded result has failed deletions or is a complete failure.
SomeFailure == \E k \in 1..Len(results) : results[k].failed > 0 \/ results[k].failed = -1

\* C13: once configuration and authentication have succeeded, the process
\* exits with status 1 exactly when a recorded result has failed > 0 or is
\* the complete failure, and with status 0 otherwise, so the status is a
\* function of results alone; and once a repository has been taken up the
\* status is never 2.
C13_ExitStatusFromResults ==
    /\ Completed => exit_code = (IF SomeFailure THEN 1 ELSE 0)
    /\ (pc \in {"loop", "tags"} \/ invoked # <<>>) => exit_code \in {-1, 0, 1}
    /\ (pc = "exit" /\ invoked # <<>>) => exit_code \in {0, 1}

\* A run of two repositories exits with status 1: one had a failed deletion
\* and the other none.
C13_Witness ==
    /\ Completed /\ exit_code = 1 /\ Len(results) = 2
    /\ \E j, k \in 1..2 : results[j].failed > 0 /\ results[k].failed = 0

\* No repository has been touched: cleanup_repository was not called, no
\* tags were listed, no token was requested and delete_tag was not called.
Untouched ==
    /\ invoked = <<>> /\ results = <<>> /\ stats = InitStats
    /\ ~listing.called /\ listing.token_requests = 0
    /\ frame = NoFrame /\ last = NoLast

\* C14: when the authentication test fails, on another answer than 200 or
\* on an exception, the process exits with status 2 and no repository is
\* touched; and in every run no repository is touched before the
\* authentication test has been made.
C14_AuthenticationFirst ==
    /\ auth \in {"status", "exception"} =>
           pc = "exit" /\ exit_code = 2 /\ Untouched
    /\ auth = "none" => Untouched
    /\ pc \in {"loop", "tags"} => auth = "200"

\* The authentication request was answered with another status than 200 and
\* the run is over.
C14_Witness == auth = "status" /\ pc = "exit" /\ exit_code = 2 /\ args.credentials

\* The run has a configuration error: a credential is missing, no
\* repository is given, or the custom-pattern input is malformed, as JSON
\* or as a regular expression.
ConfigurationErrorGiven ==
    \/ ~args.credentials
    \/ args.repositories = <<>>
    \/ ~args.json_ok
    \/ \E k \in 1..Len(args.custom_patterns) : ~args.custom_patterns[k].pattern.valid

\* C15, as claimed: every configuration error is detected before
\* processing starts: no repository is listed or modified, and the process
\* exits with status 2.
C15_ConfigurationErrorsFatal ==
    ConfigurationErrorGiven =>
        /\ Untouched
        /\ pc = "exit" => exit_code = 2

\* C16: with the dry-run flag set, delete_tag makes no request on either
\* deletion path and reports success: every tag identified for deletion is
\* counted as deleted, and every repository that is processed to completion
\* ends with failed = 0 and deleted = identified.
C16_DryRunDeletesNothing ==
    args.dry_run =>
        /\ Identified =>
               /\ last.outcome = "deleted" /\ last.calls = 1
               /\ last.registry = "none" /\ last.hub = "none"
        /\ frame.failed_count = 0
        /\ frame.deleted_count = frame.identified_count
        /\ \A k \in 1..Len(results) :
               results[k].failed # -1 =>
                   /\ results[k].failed = 0
                   /\ results[k].deleted = results[k].identified

\* A dry run has finished a repository in which a tag was identified.
C16_Witness ==
    /\ args.dry_run /\ Len(results) = 1
    /\ results[1].identified > 0 /\ results[1].deleted = results[1].identified

\* should_delete_tag has decided the latest tag.
Evaluated == pc = "tags" /\ Handled /\ last.reason \in {"custom", "pr", "sha", "unknown"}

\* C17, as claimed: the decision and the reason recorded for a tag are
\* those that evaluating the same name, timestamp and policy against the
\* same now (the same cutoffs of the repository) gives again, whatever the
\* wall clock shows at the second evaluation.
C17_SameDecisionAgain ==
    Evaluated =>
        \A t \in frame.now..MaxClock :
            LET again == should_delete_tag(last.tag.name, last.last_updated,
                                           frame.pr_cutoff, frame.sha_cutoff,
                                           args.custom_patterns, t)
            IN  /\ ~again.raised
                /\ again.delete = Identified
                /\ again.reason = last.reason

\* The orders in which n results can be summed.
Orders(n) == { p \in [1..n -> 1..n] : \A j, k \in 1..n : p[j] = p[k] => j = k }

\* C18: the overall totals (identified, deleted, kept, protected, failed)
\* are the same in whatever order the repository results are summed,
\* failure records included.
C18_TotalsOrderIndependent ==
    /\ Completed => summary = Totals(results)
    /\ \A p \in Orders(Len(results)) :
           Totals([k \in 1..Len(results) |-> results[p[k]]]) = Totals(results)

\* The run is over with two results to sum, one with a failed deletion and
\* one a failure record.
C18_Witness ==
    /\ Completed /\ Len(results) = 2 /\ summary.failed > 0
    /\ \E j, k \in 1..2 : results[j].failed > 0 /\ results[k].failed = -1

\* The failures that are transient: a timeout or a connection error.
Transient == {"timeout", "connection"}

\* C19, as claimed: a transient failure of a network call of a
\* retry-decorated operation (the token fetch, the Hub listing, the
\* Registry listing, the deletion of a tag) has the operation attempted
\* again, up to max_retries times, before it reports to its caller.
C19_TransientFailureRetried ==
    /\ listing.hub_fault \in Transient =>
           listing.hub_calls \in 2..max_retries
    /\ (listing.token_outcomes # <<>> /\ listing.token_outcomes[1] \in Transient) =>
           listing.token.attempts \in 2..max_retries
    /\ listing.registry_fault \in Transient =>
           listing.registry_calls \in 2..max_retries
    /\ listing.hub_again_fault \in Transient =>
           listing.hub_again_calls \in 2..max_retries
    /\ last.registry \in Transient =>
           last.attempts \in 2..max_retries

\* C20, as claimed, for the first get_bearer_token call of a listing: for
\* every sequence of outcomes of the wrapped function, the wrapper invokes
\* it at most max_retries times; it stops early only to return the result
\* of the first successful invocation or to raise a 401 again at once, and
\* otherwise raises after the last of its max_retries invocations.
C20_RetryBounded ==
    LET s == listing.token_outcomes
        n == Len(s)
        call == listing.token
    IN  n > 0 =>
          /\ n <= max_retries /\ call.attempts = n
          /\ \A k \in 1..(n - 1) : s[k] \notin {"ok", "unauthorized"}
          /\ s[n] = "ok" => ~call.raised
          /\ s[n] = "unauthorized" => call.raised /\ call.exception = "unauthorized"
          /\ s[n] \notin {"ok", "unauthorized"} => call.raised /\ n = max_retries

\* ------------------------------------------------------------ claim C21

\* get_bearer_token has been called; the key of its latest call.
TokenCalled == token_call.n > 0
CalledKey == cache_key(token_call.namespace, token_call.repository)

\* Seconds, at the latest call, since a token was last cached for the
\* namespace and repository of the call.
KnownAge == token_call.at - token_call.known.created

\* C21: get_bearer_token returns a cached token, with no request, exactly when
\* a token was cached for the same namespace and repository less than TokenTtl
\* (240) seconds before the call; otherwise it makes one request and, the
\* request answered, replaces the entry of that key with the new token and the
\* time of the answer (a request that fails raises and leaves the entry).  A
\* token cached TokenTtl seconds ago or more is never returned, and neither is
\* a token requested for another repository.
C21_CachedTokenFresh ==
    TokenCalled =>
        /\ token_call.cached <=> (token_call.known.present /\ KnownAge < TokenTtl)
        /\ token_call.cached =>
              /\ token_call.requests = 0
              /\ ~token_call.raised
              /\ token_call.returned = token_call.known.token
              /\ tokens[CalledKey] = token_call.before
        /\ ~token_call.cached =>
              /\ token_call.requests = 1
              /\ IF token_call.raised
                   THEN tokens[CalledKey] = token_call.before
                   ELSE tokens[CalledKey] = CacheEntry(token_call.returned, seconds)
        /\ ~token_call.raised =>
              token_call.returned \in
                  {NoneToken} \cup
                  { Token(token_call.namespace, token_call.repository, n) : n \in 1..token_call.n }
        /\ \A key \in CacheKeys \ {CalledKey} :
              tokens[key].present =>
                  \E target \in Targets :
                      /\ key = cache_key(target[1], target[2])
                      /\ tokens[key] = stored[target]

\* A token one second short of TokenTtl is returned from the cache while the
\* cache holds a token of another repository as well.
C21_Witness ==
    /\ TokenCalled
    /\ token_call.cached
    /\ KnownAge = TokenTtl - 1
    /\ \E key \in CacheKeys \ {CalledKey} : tokens[key].present

\* ------------------------------------------------------------ claim C22

\* get_tags has run for the repository in hand.
Listed == listing.called

RepositorySums == Totals(stats.repositories)

\* C23: when the run ends, identified_count, deleted_count and
\* protected_count of stats are the sums of identified, deleted and protected
\* over the entries of stats["repositories"], a repository whose processing
\* raised part-way through its tags included.
C23_CountersMatchRepositories ==
    Completed =>
        /\ stats.identified_count = RepositorySums.identified
        /\ stats.deleted_count = RepositorySums.deleted
        /\ stats.protected_count = RepositorySums.protected

\* ------------------------------------------------------------ claim C24

\* The tags of the latest repository came from the Registry tags/list.
RegistryListed == listing.called /\ listing.source = "registry" /\ listing.n > 0

\* Every retention window of the run is at least one day.
WindowsAtLeastOneDay ==
    /\ args.pr_retention >= 1
    /\ args.sha_retention >= 1
    /\ \A k \in DOMAIN args.custom_patterns : args.custom_patterns[k].days >= 1

\* The statistics cleanup_repository appended for the latest repository.
LatestStatistics ==
    { s \in { stats.repositories[k] : k \in DOMAIN stats.repositories } :
        invoked # <<>> /\ s.repository = RepositoryId(invoked[Len(invoked)]) }

\* C24: tags listed by the Registry API carry the listing time as
\* last_updated, so with every retention window (PR, SHA, custom) of at least
\* one day none of them is identified for deletion and delete_tag is not
\* called: the statistics of the repository have identified = deleted =
\* failed = 0.
C24_RegistryTagsKept ==
    (RegistryListed /\ WindowsAtLeastOneDay) =>
        /\ pc = "tags" =>
              /\ frame.source = "registry"
              /\ frame.identified_count = 0
              /\ frame.deleted_count = 0
              /\ frame.failed_count = 0
              /\ frame.delete_calls = 0
              /\ Handled => (~Identified /\ last.last_updated = frame.listed_at)
        /\ \A s \in LatestStatistics :
              s.identified = 0 /\ s.deleted = 0 /\ s.failed = 0

\* The tag loop has gone through a repository listed by the Registry, time
\* having passed since the listing: the last of its tags, a PR tag, was kept
\* as the others were.
C24_Witness ==
    /\ RegistryListed /\ WindowsAtLeastOneDay
    /\ pc = "tags" /\ frame.i = frame.total_tags
    /\ frame.now > frame.listed_at
    /\ Handled /\ MatchesPrPattern(last.tag.name) /\ last.outcome = "kept"
    /\ frame.kept_count = frame.total_tags

====
